---- MODULE Spec2Model ----
(***************************************************************************)
(* Model of the signalling server in src/server.js: the three process-wide *)
(* maps (rooms, users, connections), the WebSocket lifecycle of every      *)
(* accepted socket, and one action per event handler.  Every handler runs  *)
(* to completion (single-threaded event loop), so every handler is one     *)
(* atomic action.                                                          *)
(*                                                                         *)
(* Two history variables record what the last handler did: `last` is the   *)
(* event that was handled, `sent` is the sequence of ws.send calls that    *)
(* handler made, in order.                                                 *)
(***************************************************************************)
EXTENDS Integers, Sequences, FiniteSets, TLC

\* ---------------------------------------------------------------- bounds
\* Number of connections the server accepts in a run.  Socket objects are
\* numbered in the order in which they are accepted.
MaxSockets == 2

\* Number of events (connection, message, close) handled in a run.
MaxEvents == 6

Sockets == 1..MaxSockets

\* Values generateId can return.  Math.random() is not checked against the
\* keys of `connections`, so an identifier in use can be returned again.
ConnIds == {"a", "b"}

\* Room names a client can put in roomName.  "" stands for the falsy room
\* names (missing field, "", null, 0, false).
RoomNames == {"", "r1"}

UserNames == {"Alice", "Bob"}

\* Opaque relayed value (offer, answer, candidate, enabled).
Payloads == {"X"}

RelayKinds == {"offer", "answer", "ice-candidate", "toggle-video", "toggle-audio"}

\* Capacity of a room (room.users.length >= 2, maxUsers: 2).
MaxUsers == 2

\* excludeWs = null, and "no value" for the fields of `last`.
null == 0
None == "-"

VARIABLES
    rooms,          \* Map roomName -> [id, creator, users]
    users,          \* Map connectionId -> [name, room]
    connections,    \* Map connectionId -> ws
    readyState,     \* ws.readyState of every socket
    connectionId,   \* the connectionId captured by each socket's closures
    last,           \* the event handled by the last step
    sent,           \* the ws.send calls of the last step, in order
    handled,        \* number of events handled so far
    relayed         \* per socket: the events whose relay was put on its
                    \* transport, in the order of the ws.send calls

vars == <<rooms, users, connections, readyState, connectionId, last, sent, handled,
          relayed>>

\* ------------------------------------------------------------ Map helpers
EmptyMap == <<>>

MapSet(m, k, v) == [x \in DOMAIN m \cup {k} |-> IF x = k THEN v ELSE m[x]]

MapDelete(m, k) == [x \in DOMAIN m \ {k} |-> m[x]]

\* JavaScript truthiness of a room name (user.room in `user && user.room`).
Truthy(v) == v # ""

\* The event a step handled: the socket it arrived on, the connectionId its
\* closure holds, and the fields of the message.
Event(kind, ws, roomName, userName, payload) ==
    [kind |-> kind, ws |-> ws, id |-> IF ws = null THEN None ELSE connectionId[ws],
     roomName |-> roomName, userName |-> userName, payload |-> payload]

Msg(ws, type, data) == [to |-> ws, type |-> type, data |-> data]

\* ------------------------------------------------------------- primitives
generateId == ConnIds

sendToClient(ws, type, data) ==
    IF readyState[ws] = "OPEN" THEN <<Msg(ws, type, data)>> ELSE <<>>

\* A fan-out loop that does not look at the state of the transport.
RECURSIVE forEachUserAnyState(_, _, _, _, _, _)
forEachUserAnyState(rms, us, i, type, data, excludeWs) ==
    IF i > Len(us) THEN <<>>
    ELSE LET user == us[i]
             hasWs == user.id \in DOMAIN connections
             userWs == IF hasWs THEN connections[user.id] ELSE null
             deliver == IF hasWs /\ userWs # excludeWs
                        THEN <<Msg(userWs, type, data)>>
                        ELSE <<>>
         IN deliver \o forEachUserAnyState(rms, us, i + 1, type, data, excludeWs)

RECURSIVE forEachUser(_, _, _, _, _, _)
forEachUser(rms, us, i, type, data, excludeWs) ==
    IF i > Len(us) THEN <<>>
    ELSE LET user == us[i]
             hasWs == user.id \in DOMAIN connections
             userWs == IF hasWs THEN connections[user.id] ELSE null
             deliver == IF hasWs /\ userWs # excludeWs /\ readyState[userWs] = "OPEN"
                        THEN sendToClient(userWs, type, data)
                        ELSE <<>>
         IN deliver \o forEachUser(rms, us, i + 1, type, data, excludeWs)

\* Fan-out that forgets the excluded socket.
sendToRoomNoExclude(rms, roomName, type, data, excludeWs) ==
    IF roomName \in DOMAIN rms
    THEN forEachUser(rms, rms[roomName].users, 1, type, data, null)
    ELSE <<>>

\* `rms` is the value of the rooms map at the time of the call.
sendToRoom(rms, roomName, type, data, excludeWs) ==
    IF roomName \in DOMAIN rms
    THEN forEachUser(rms, rms[roomName].users, 1, type, data, excludeWs)
    ELSE <<>>

\* ------------------------------------------------------------------ Init
Init ==
    /\ rooms = EmptyMap
    /\ users = EmptyMap
    /\ connections = EmptyMap
    /\ readyState = [w \in Sockets |-> "NONE"]
    /\ connectionId = [w \in Sockets |-> None]
    /\ last = Event("init", null, None, None, None)
    /\ sent = <<>>
    /\ handled = 0
    /\ relayed = [w \in Sockets |-> <<>>]

\* Every step handles one event.
Step ==
    /\ handled < MaxEvents
    /\ handled' = handled + 1

\* A transport that puts new messages in front of the older ones.
TransmitInFront(old, s, w, n) == [i \in 1..Len(SelectSeq(s, LAMBDA m : m.to = w)) |-> n] \o old

\* ws.send hands the messages to the transport in call order: the relay
\* messages in s, all made by event number n, go behind what socket w was
\* sent before.
Transmit(old, s, w, n) == old \o [i \in 1..Len(SelectSeq(s, LAMBDA m : m.to = w)) |-> n]

\* ------------------------------------------------------------- lifecycle
\* wss.on("connection"): the next socket object is accepted.
Connection(ws) ==
    /\ Step
    /\ readyState[ws] = "NONE"
    /\ \A w \in Sockets : w < ws => readyState[w] # "NONE"
    /\ \E id \in generateId :
          /\ connectionId' = [connectionId EXCEPT ![ws] = id]
          /\ connections' = MapSet(connections, id, ws)
    /\ readyState' = [readyState EXCEPT ![ws] = "OPEN"]
    /\ last' = [Event("connection", ws, None, None, None) EXCEPT !.id = connectionId'[ws]]
    /\ sent' = <<>>
    /\ UNCHANGED <<rooms, users, relayed>>

\* The transport leaves OPEN (close frame or socket error) before the
\* "close" event is emitted; from here on readyState === OPEN is false.
Closing(ws) ==
    /\ Step
    /\ readyState[ws] = "OPEN"
    /\ readyState' = [readyState EXCEPT ![ws] = "CLOSING"]
    /\ last' = Event("closing", ws, None, None, None)
    /\ sent' = <<>>
    /\ UNCHANGED <<rooms, users, connections, connectionId, relayed>>

\* ---------------------------------------------------------------- handlers
\* Each handler is given as the action it performs on rooms, users and sent;
\* `id` is the connectionId of the closure that calls it.

\* create-room without the rooms.has(roomName) check.
handleCreateRoomOverwrites(ws, id, roomName, userName) ==
    /\ rooms' = MapSet(rooms, roomName,
                   [id |-> roomName, creator |-> id,
                    users |-> <<[id |-> id, name |-> userName]>>])
    /\ users' = MapSet(users, id, [name |-> userName, room |-> roomName])
    /\ sent' = sendToClient(ws, "room-created",
                   [roomName |-> roomName, userName |-> userName])

handleCreateRoom(ws, id, roomName, userName) ==
    IF roomName \in DOMAIN rooms
    THEN /\ sent' = sendToClient(ws, "room-error", [message |-> "Room already exists"])
         /\ UNCHANGED <<rooms, users>>
    ELSE /\ rooms' = MapSet(rooms, roomName,
                        [id |-> roomName, creator |-> id,
                         users |-> <<[id |-> id, name |-> userName]>>])
         /\ users' = MapSet(users, id, [name |-> userName, room |-> roomName])
         /\ sent' = sendToClient(ws, "room-created",
                        [roomName |-> roomName, userName |-> userName])

\* Capacity check that is off by one.
RoomIsFullOffByOne(room) == Len(room.users) > MaxUsers

\* room.users.length >= 2
RoomIsFull(room) == Len(room.users) >= MaxUsers

handleJoinRoom(ws, id, roomName, userName) ==
    IF roomName \notin DOMAIN rooms
    THEN /\ sent' = sendToClient(ws, "room-error", [message |-> "Room does not exist"])
         /\ UNCHANGED <<rooms, users>>
    ELSE IF RoomIsFull(rooms[roomName])
    THEN /\ sent' = sendToClient(ws, "room-error", [message |-> "Room is full"])
         /\ UNCHANGED <<rooms, users>>
    ELSE LET pushed == Append(rooms[roomName].users, [id |-> id, name |-> userName])
             rooms1 == [rooms EXCEPT ![roomName].users = pushed]
         IN /\ rooms' = rooms1
            /\ users' = MapSet(users, id, [name |-> userName, room |-> roomName])
            /\ sent' = sendToRoom(rooms1, roomName, "user-joined",
                           [userId |-> id, userName |-> userName, users |-> pushed], ws)
                       \o sendToClient(ws, "room-joined",
                           [roomName |-> roomName, userName |-> userName, users |-> pushed])

\* An offer handler that relays for members of the room only.
handleOfferMembersOnly(ws, id, offer, roomName) ==
    sent' = IF roomName \in DOMAIN rooms /\ id \in {rooms[roomName].users[i].id :
                                                       i \in 1..Len(rooms[roomName].users)}
            THEN sendToRoom(rooms, roomName, "offer", [offer |-> offer, from |-> id], ws)
            ELSE <<>>

handleOffer(ws, id, offer, roomName) ==
    sent' = sendToRoom(rooms, roomName, "offer", [offer |-> offer, from |-> id], ws)

handleAnswer(ws, id, answer, roomName) ==
    sent' = sendToRoom(rooms, roomName, "answer", [answer |-> answer, from |-> id], ws)

handleIceCandidate(ws, id, candidate, roomName) ==
    sent' = sendToRoom(rooms, roomName, "ice-candidate",
                [candidate |-> candidate, from |-> id], ws)

handleToggleVideo(ws, id, roomName, enabled) ==
    sent' = sendToRoom(rooms, roomName, "user-video-toggle",
                [userId |-> id, enabled |-> enabled], ws)

handleToggleAudio(ws, id, roomName, enabled) ==
    sent' = sendToRoom(rooms, roomName, "user-audio-toggle",
                [userId |-> id, enabled |-> enabled], ws)

\* The dispatcher passes the whole payload object where the handler expects
\* the room name.  A freshly parsed object is never a key of `rooms`.
PayloadObject(roomName) == "{roomName:" \o roomName \o "}"

handleGetRoomInfo(ws, roomName) ==
    IF roomName \in DOMAIN rooms
    THEN sent' = sendToClient(ws, "room-info",
                    [exists |-> TRUE, userCount |-> Len(rooms[roomName].users),
                     maxUsers |-> MaxUsers])
    ELSE sent' = sendToClient(ws, "room-info", [exists |-> FALSE])

\* room.users.filter((u) => u.id !== connectionId)
filter(us, id) == SelectSeq(us, LAMBDA u : u.id # id)

\* The room handleDisconnect(id) removes id from, None when it touches no room.
roomLeft(id) ==
    IF id \in DOMAIN users /\ Truthy(users[id].room) /\ users[id].room \in DOMAIN rooms
    THEN users[id].room
    ELSE None

\* Disconnect that leaves the emptied room in the map.
handleDisconnectKeepsEmptyRoom(id) ==
    /\ IF roomLeft(id) # None
       THEN LET user == users[id]
                remaining == filter(rooms[user.room].users, id)
                rooms1 == [rooms EXCEPT ![user.room].users = remaining]
            IN /\ sent' = sendToRoom(rooms1, user.room, "user-left",
                              [userId |-> id, userName |-> user.name, users |-> remaining],
                              null)
               /\ rooms' = rooms1
       ELSE /\ sent' = <<>>
            /\ UNCHANGED rooms
    /\ users' = MapDelete(users, id)
    /\ connections' = MapDelete(connections, id)

handleDisconnect(id) ==
    /\ IF roomLeft(id) # None
       THEN LET user == users[id]
                remaining == filter(rooms[user.room].users, id)
                rooms1 == [rooms EXCEPT ![user.room].users = remaining]
            IN /\ sent' = sendToRoom(rooms1, user.room, "user-left",
                              [userId |-> id, userName |-> user.name, users |-> remaining],
                              null)
               /\ rooms' = IF Len(remaining) = 0
                           THEN MapDelete(rooms1, user.room)
                           ELSE rooms1
       ELSE /\ sent' = <<>>
            /\ UNCHANGED rooms
    /\ users' = MapDelete(users, id)
    /\ connections' = MapDelete(connections, id)

\* ------------------------------------------------- ws.on("message") cases
\* A message event is emitted on a socket whose readyState is OPEN.
Receives(ws) == Step /\ readyState[ws] = "OPEN"

CreateRoom(ws, roomName, userName) ==
    /\ Receives(ws)
    /\ handleCreateRoom(ws, connectionId[ws], roomName, userName)
    /\ last' = Event("create-room", ws, roomName, userName, None)
    /\ UNCHANGED <<connections, readyState, connectionId, relayed>>

JoinRoom(ws, roomName, userName) ==
    /\ Receives(ws)
    /\ handleJoinRoom(ws, connectionId[ws], roomName, userName)
    /\ last' = Event("join-room", ws, roomName, userName, None)
    /\ UNCHANGED <<connections, readyState, connectionId, relayed>>

Offer(ws, roomName, p) ==
    /\ Receives(ws)
    /\ handleOffer(ws, connectionId[ws], p, roomName)
    /\ last' = Event("offer", ws, roomName, None, p)
    /\ UNCHANGED <<rooms, users, connections, readyState, connectionId>>
    /\ relayed' = [w \in Sockets |-> Transmit(relayed[w], sent', w, handled')]

Answer(ws, roomName, p) ==
    /\ Receives(ws)
    /\ handleAnswer(ws, connectionId[ws], p, roomName)
    /\ last' = Event("answer", ws, roomName, None, p)
    /\ UNCHANGED <<rooms, users, connections, readyState, connectionId>>
    /\ relayed' = [w \in Sockets |-> Transmit(relayed[w], sent', w, handled')]

IceCandidate(ws, roomName, p) ==
    /\ Receives(ws)
    /\ handleIceCandidate(ws, connectionId[ws], p, roomName)
    /\ last' = Event("ice-candidate", ws, roomName, None, p)
    /\ UNCHANGED <<rooms, users, connections, readyState, connectionId>>
    /\ relayed' = [w \in Sockets |-> Transmit(relayed[w], sent', w, handled')]

ToggleVideo(ws, roomName, p) ==
    /\ Receives(ws)
    /\ handleToggleVideo(ws, connectionId[ws], roomName, p)
    /\ last' = Event("toggle-video", ws, roomName, None, p)
    /\ UNCHANGED <<rooms, users, connections, readyState, connectionId>>
    /\ relayed' = [w \in Sockets |-> Transmit(relayed[w], sent', w, handled')]

ToggleAudio(ws, roomName, p) ==
    /\ Receives(ws)
    /\ handleToggleAudio(ws, connectionId[ws], roomName, p)
    /\ last' = Event("toggle-audio", ws, roomName, None, p)
    /\ UNCHANGED <<rooms, users, connections, readyState, connectionId>>
    /\ relayed' = [w \in Sockets |-> Transmit(relayed[w], sent', w, handled')]

GetRoomInfo(ws, roomName) ==
    /\ Receives(ws)
    /\ handleGetRoomInfo(ws, PayloadObject(roomName))
    /\ last' = Event("get-room-info", ws, roomName, None, None)
    /\ UNCHANGED <<rooms, users, connections, readyState, connectionId, relayed>>

\* A default case that answers the sender with an error.
UnknownTypeReplies(ws) ==
    /\ Receives(ws)
    /\ sent' = sendToClient(ws, "error", [message |-> "Unknown message type"])
    /\ last' = Event("unknown", ws, None, None, None)
    /\ UNCHANGED <<rooms, users, connections, readyState, connectionId, relayed>>

\* default: console.log only.
UnknownType(ws) ==
    /\ Receives(ws)
    /\ sent' = <<>>
    /\ last' = Event("unknown", ws, None, None, None)
    /\ UNCHANGED <<rooms, users, connections, readyState, connectionId, relayed>>

\* A catch block that also drops the connection.
MalformedTerminates(ws) ==
    /\ Receives(ws)
    /\ sent' = sendToClient(ws, "error", [message |-> "Invalid message format"])
    /\ last' = Event("malformed", ws, None, None, None)
    /\ readyState' = [readyState EXCEPT ![ws] = "CLOSING"]
    /\ UNCHANGED <<rooms, users, connections, connectionId, relayed>>

\* JSON.parse throws (or the parsed value is null): the catch block replies.
Malformed(ws) ==
    /\ Receives(ws)
    /\ sent' = sendToClient(ws, "error", [message |-> "Invalid message format"])
    /\ last' = Event("malformed", ws, None, None, None)
    /\ UNCHANGED <<rooms, users, connections, readyState, connectionId, relayed>>

\* ws.on("close")
Close(ws) ==
    /\ Step
    /\ readyState[ws] \in {"OPEN", "CLOSING"}
    /\ handleDisconnect(connectionId[ws])
    /\ readyState' = [readyState EXCEPT ![ws] = "CLOSED"]
    /\ UNCHANGED <<connectionId, relayed>>
    /\ last' = Event("close", ws, roomLeft(connectionId[ws]), None, None)

Next ==
    \/ \E ws \in Sockets : Connection(ws)
    \/ \E ws \in Sockets : Closing(ws)
    \/ \E ws \in Sockets : Close(ws)
    \/ \E ws \in Sockets, r \in RoomNames, n \in UserNames : CreateRoom(ws, r, n)
    \/ \E ws \in Sockets, r \in RoomNames, n \in UserNames : JoinRoom(ws, r, n)
    \/ \E ws \in Sockets, r \in RoomNames, p \in Payloads : Offer(ws, r, p)
    \/ \E ws \in Sockets, r \in RoomNames, p \in Payloads : Answer(ws, r, p)
    \/ \E ws \in Sockets, r \in RoomNames, p \in Payloads : IceCandidate(ws, r, p)
    \/ \E ws \in Sockets, r \in RoomNames, p \in Payloads : ToggleVideo(ws, r, p)
    \/ \E ws \in Sockets, r \in RoomNames, p \in Payloads : ToggleAudio(ws, r, p)
    \/ \E ws \in Sockets, r \in RoomNames : GetRoomInfo(ws, r)
    \/ \E ws \in Sockets : UnknownType(ws)
    \/ \E ws \in Sockets : Malformed(ws)

Spec == Init /\ [][Next]_vars

TypeOK ==
    /\ DOMAIN rooms \subseteq RoomNames
    /\ DOMAIN users \subseteq ConnIds
    /\ DOMAIN connections \subseteq ConnIds
    /\ \A id \in DOMAIN connections : connections[id] \in Sockets

\* ------------------------------------------------------- claim vocabulary
\* The identifiers listed in a member list.
MemberIds(us) == {us[i].id : i \in 1..Len(us)}

\* The rooms whose member list names identifier c.
RoomsOf(c) == {r \in DOMAIN rooms : c \in MemberIds(rooms[r].users)}

\* The messages of s addressed to socket ws, in order.
SentTo(s, ws) == SelectSeq(s, LAMBDA m : m.to = ws)

\* ---------------------------------------------------------------- C1
\* C1: every room in the registry has one or two members; no room with zero
\* members and no room with more than two members is ever present.
C1_RoomSize == \A r \in DOMAIN rooms : Len(rooms[r].users) \in 1..MaxUsers

\* A disconnect has just emptied and deleted a room while a room with two
\* different members is present.
C1_Witness ==
    /\ last.kind = "close"
    /\ last.roomName # None
    /\ last.roomName \notin DOMAIN rooms
    /\ \E r \in DOMAIN rooms : Cardinality(MemberIds(rooms[r].users)) = MaxUsers

\* ---------------------------------------------------------------- C2
\* C2: for every connection identifier c there is at most one room whose
\* member list contains c.
C2_OneRoomPerUser == \A c \in ConnIds : Cardinality(RoomsOf(c)) <= 1

\* ---------------------------------------------------------------- C3
\* C3: no room's member list contains the same connection identifier twice.
C3_MembersUnique ==
    \A r \in DOMAIN rooms :
        \A i, j \in 1..Len(rooms[r].users) :
            i # j => rooms[r].users[i].id # rooms[r].users[j].id

\* ---------------------------------------------------------------- C4
\* C4: when the transport of connection c closes while c is the only
\* identifier in the member list of room r, r is absent from the registry
\* after the disconnect handler has run.
C4_SoleMemberCloseRemovesRoom ==
    [][\A r \in DOMAIN rooms :
          (last'.kind = "close" /\ MemberIds(rooms[r].users) = {last'.id})
              => r \notin DOMAIN rooms']_vars

\* ---------------------------------------------------------------- C5
\* C5: when one of the two members of a room r disconnects, r stays in the
\* registry with exactly the other member, and the other member, if its
\* transport is open, receives exactly one user-left carrying the leaver's
\* identifier, the leaver's display name and the member list after removal;
\* for every room the leaver is a member of.
C5_CloseOfOneOfTwoNotifiesOther ==
    [][\A r \in DOMAIN rooms : \A i \in 1..2 :
          (/\ last'.kind = "close"
           /\ Len(rooms[r].users) = 2
           /\ rooms[r].users[i].id = last'.id
           /\ rooms[r].users[3 - i].id # last'.id)
          => LET leaver == rooms[r].users[i]
                 other == rooms[r].users[3 - i]
             IN /\ r \in DOMAIN rooms'
                /\ rooms'[r].users = <<other>>
                /\ \A w \in Sockets :
                      (/\ w # last'.ws
                       /\ connectionId[w] = other.id
                       /\ readyState[w] = "OPEN")
                      => /\ Len(SentTo(sent', w)) = 1
                         /\ SentTo(sent', w)[1].type = "user-left"
                         /\ SentTo(sent', w)[1].data.userId = leaver.id
                         /\ SentTo(sent', w)[1].data.userName = leaver.name
                         /\ SentTo(sent', w)[1].data.users = <<other>>]_vars

\* ---------------------------------------------------------------- C6
\* C6: a create-room(r) received while r is a key of the room registry is
\* answered with one room-error to the sender and nothing else, and leaves
\* the room registry (member lists and creators), the user directory and
\* the connection registry unchanged.
C6_CreateExistingRoomRejected ==
    [][(last'.kind = "create-room" /\ last'.roomName \in DOMAIN rooms)
          => /\ Len(sent') = 1
             /\ sent'[1].to = last'.ws
             /\ sent'[1].type = "room-error"
             /\ rooms' = rooms
             /\ users' = users
             /\ connections' = connections]_vars

\* A connection has just been refused a room that another connection
\* created.
C6_Witness ==
    /\ last.kind = "create-room"
    /\ sent = <<Msg(last.ws, "room-error", [message |-> "Room already exists"])>>
    /\ last.roomName \in DOMAIN rooms
    /\ rooms[last.roomName].creator # last.id

\* ---------------------------------------------------------------- C7
\* C7: join-room(r) succeeds exactly when r is a key of the room registry
\* with fewer than 2 members.  When r is absent the sender gets room-error
\* "Room does not exist", when r holds 2 members the sender gets room-error
\* "Room is full"; in both cases the room registry and the user directory
\* are unchanged and nothing is sent to any other connection.
JoinSucceeded ==
    /\ last'.roomName \in DOMAIN rooms'
    /\ Len(rooms'[last'.roomName].users) > 0
    /\ rooms'[last'.roomName].users[Len(rooms'[last'.roomName].users)] =
           [id |-> last'.id, name |-> last'.userName]
    /\ \E i \in 1..Len(sent') : sent'[i] =
           Msg(last'.ws, "room-joined",
               [roomName |-> last'.roomName, userName |-> last'.userName,
                users |-> rooms'[last'.roomName].users])
    /\ rooms' # rooms

C7_JoinSucceedsIffRoomHasSpace ==
    [][last'.kind = "join-room" =>
          LET r == last'.roomName
              absent == r \notin DOMAIN rooms
              full == r \in DOMAIN rooms /\ Len(rooms[r].users) >= 2
          IN /\ JoinSucceeded <=> (~absent /\ ~full)
             /\ absent =>
                   /\ sent' = <<Msg(last'.ws, "room-error",
                                    [message |-> "Room does not exist"])>>
                   /\ rooms' = rooms /\ users' = users
             /\ full =>
                   /\ sent' = <<Msg(last'.ws, "room-error",
                                    [message |-> "Room is full"])>>
                   /\ rooms' = rooms /\ users' = users]_vars

\* A connection that is not listed in a room of two has just been refused
\* with "Room is full".
C7_Witness ==
    /\ last.kind = "join-room"
    /\ sent = <<Msg(last.ws, "room-error", [message |-> "Room is full"])>>
    /\ last.roomName \in DOMAIN rooms
    /\ Len(rooms[last.roomName].users) = 2
    /\ last.id \notin MemberIds(rooms[last.roomName].users)

\* ---------------------------------------------------------------- C8
\* C8: the connection that sends offer, answer, ice-candidate, toggle-video,
\* toggle-audio or join-room never receives the message fanned out on its
\* behalf (offer, answer, ice-candidate, user-video-toggle,
\* user-audio-toggle, user-joined).
FanoutTypes ==
    {"offer", "answer", "ice-candidate", "user-video-toggle",
     "user-audio-toggle", "user-joined"}

C8_SenderExcluded ==
    last.kind \in RelayKinds \cup {"join-room"} =>
        \A i \in 1..Len(sent) :
            sent[i].type \in FanoutTypes => sent[i].to # last.ws

\* A member of a room has just relayed a message that another connection
\* received.
C8_Witness ==
    /\ last.kind \in RelayKinds
    /\ last.roomName \in DOMAIN rooms
    /\ last.id \in MemberIds(rooms[last.roomName].users)
    /\ \E i \in 1..Len(sent) : connectionId[sent[i].to] # last.id

\* ---------------------------------------------------------------- C9
\* C9: when connection B joins room r as userName while r's only member is
\* A and both transports are open, B receives exactly one room-joined with
\* r, userName and the member list <<A, B>>, A receives exactly one
\* user-joined with B's identifier, userName and the same list, B receives
\* no user-joined, and B's user directory entry records r.
C9_JoinNotifiesBoth ==
    [][\A wA \in Sockets :
          (/\ last'.kind = "join-room"
           /\ last'.roomName \in DOMAIN rooms
           /\ Len(rooms[last'.roomName].users) = 1
           /\ wA # last'.ws
           /\ readyState[wA] = "OPEN"
           /\ connectionId[wA] = rooms[last'.roomName].users[1].id)
          => LET r == last'.roomName
                 wB == last'.ws
                 list == <<rooms[r].users[1],
                           [id |-> last'.id, name |-> last'.userName]>>
             IN /\ SentTo(sent', wB) =
                      <<Msg(wB, "room-joined",
                            [roomName |-> r, userName |-> last'.userName,
                             users |-> list])>>
                /\ SentTo(sent', wA) =
                      <<Msg(wA, "user-joined",
                            [userId |-> last'.id, userName |-> last'.userName,
                             users |-> list])>>
                /\ last'.id \in DOMAIN users'
                /\ users'[last'.id].room = r]_vars

\* ---------------------------------------------------------------- C10
\* C10: when member A of a two-member room r sends a relay kind naming r
\* and both transports are open, the other member B receives exactly one
\* message of the corresponding outbound kind with the payload unchanged
\* and from/userId equal to A's identifier, and no connection outside r's
\* member list receives anything.
RelayMsg(kind, to, id, p) ==
    CASE kind = "offer" -> Msg(to, "offer", [offer |-> p, from |-> id])
      [] kind = "answer" -> Msg(to, "answer", [answer |-> p, from |-> id])
      [] kind = "ice-candidate" ->
             Msg(to, "ice-candidate", [candidate |-> p, from |-> id])
      [] kind = "toggle-video" ->
             Msg(to, "user-video-toggle", [userId |-> id, enabled |-> p])
      [] kind = "toggle-audio" ->
             Msg(to, "user-audio-toggle", [userId |-> id, enabled |-> p])

C10_RelayReachesOtherMemberOnce ==
    [][\A wB \in Sockets : \A i \in 1..2 :
          (/\ last'.kind \in RelayKinds
           /\ last'.roomName \in DOMAIN rooms
           /\ Len(rooms[last'.roomName].users) = 2
           /\ rooms[last'.roomName].users[i].id = last'.id
           /\ wB # last'.ws
           /\ readyState[wB] = "OPEN"
           /\ connectionId[wB] = rooms[last'.roomName].users[3 - i].id)
          => /\ SentTo(sent', wB) =
                   <<RelayMsg(last'.kind, wB, last'.id, last'.payload)>>
             /\ \A k \in 1..Len(sent') :
                   connectionId[sent'[k].to]
                       \in MemberIds(rooms[last'.roomName].users)]_vars

\* ---------------------------------------------------------------- C11
\* C11: a get-room-info naming room r is answered to the sender alone with
\* one room-info whose exists flag is true exactly when r is a key of the
\* room registry; when it is true the reply carries the room's member count
\* and a maximum of 2.  (The handler writes no registry, so the registry
\* after the step is the one the handler read.)
C11_RoomInfoReportsExistence ==
    last.kind = "get-room-info" =>
        /\ Len(sent) = 1
        /\ sent[1].to = last.ws
        /\ sent[1].type = "room-info"
        /\ sent[1].data.exists = (last.roomName \in DOMAIN rooms)
        /\ last.roomName \in DOMAIN rooms =>
              /\ sent[1].data.userCount = Len(rooms[last.roomName].users)
              /\ sent[1].data.maxUsers = MaxUsers

\* ---------------------------------------------------------------- C12
\* C12: delivery is at-most-once: handling one inbound message puts at most
\* one outbound message of a given kind on any one recipient's transport.
C12_AtMostOncePerRecipient ==
    last.kind \in RelayKinds \cup
                  {"create-room", "join-room", "get-room-info", "unknown", "malformed"} =>
        \A i, j \in 1..Len(sent) :
            (sent[i].to = sent[j].to /\ sent[i].type = sent[j].type) => i = j

\* ---------------------------------------------------------------- C13
\* C13: an unparseable envelope produces exactly one error reply "Invalid
\* message format", on the sending connection only; the connection stays
\* open and registered as before, the room registry, the user directory and
\* the connection registry are unchanged, and a later well-formed message
\* on that connection is still handled.
C13_MalformedOnlyReplies ==
    [][last'.kind = "malformed" =>
          /\ sent' = <<Msg(last'.ws, "error", [message |-> "Invalid message format"])>>
          /\ rooms' = rooms
          /\ users' = users
          /\ connections' = connections
          /\ readyState' = readyState
          /\ connectionId' = connectionId
          /\ readyState'[last'.ws] = "OPEN"]_vars

\* A connection that is in a room has just been told that its message was
\* malformed, and can still send.
C13_Witness ==
    /\ last.kind = "malformed"
    /\ sent = <<Msg(last.ws, "error", [message |-> "Invalid message format"])>>
    /\ last.id \in DOMAIN users
    /\ readyState[last.ws] = "OPEN"
    /\ handled < MaxEvents
    /\ ENABLED CreateRoom(last.ws, "r1", "Alice")

RelayFor(e, entry) ==
    IF /\ entry.id \in DOMAIN connections
       /\ connections[entry.id] # e.ws
       /\ readyState[connections[entry.id]] = "OPEN"
    THEN <<RelayMsg(e.kind, connections[entry.id], e.id, e.payload)>>
    ELSE <<>>

C15_RelayNeedsNoMembership ==
    [][(/\ last'.kind \in RelayKinds
        /\ last'.roomName \in DOMAIN rooms
        /\ last'.id \notin MemberIds(rooms[last'.roomName].users))
       => /\ \A i \in 1..Len(rooms[last'.roomName].users) :
                \A k \in 1..Len(RelayFor(last', rooms[last'.roomName].users[i])) :
                    \E n \in 1..Len(sent') :
                        sent'[n] = RelayFor(last', rooms[last'.roomName].users[i])[k]
          /\ rooms' = rooms
          /\ users' = users
          /\ connections' = connections]_vars

\* A connection that is in another room has just relayed into a room it is
\* not a member of, and a member of that room received the message.
C15_Witness ==
    /\ last.kind \in RelayKinds
    /\ last.roomName \in DOMAIN rooms
    /\ last.id \notin MemberIds(rooms[last.roomName].users)
    /\ last.id \in DOMAIN users
    /\ users[last.id].room # last.roomName
    /\ \E n \in 1..Len(sent) :
          /\ sent[n] = RelayMsg(last.kind, sent[n].to, last.id, last.payload)
          /\ connectionId[sent[n].to] \in MemberIds(rooms[last.roomName].users)

\* ---------------------------------------------------------------- C16
\* The message types the handling of an event of the given kind can send.
TypesOf(kind) ==
    CASE kind = "create-room" -> {"room-created", "room-error"}
      [] kind = "join-room" -> {"room-joined", "user-joined", "room-error"}
      [] kind = "offer" -> {"offer"}
      [] kind = "answer" -> {"answer"}
      [] kind = "ice-candidate" -> {"ice-candidate"}
      [] kind = "toggle-video" -> {"user-video-toggle"}
      [] kind = "toggle-audio" -> {"user-audio-toggle"}
      [] kind = "get-room-info" -> {"room-info"}
      [] kind = "malformed" -> {"error"}
      [] kind = "close" -> {"user-left"}
      [] OTHER -> {}

C17_FreshIdentifier ==
    [][last'.kind = "connection" =>
          /\ last'.id \notin DOMAIN connections
          /\ \A w \in Sockets : connectionId[w] # last'.id
          /\ \A c \in DOMAIN connections : connections'[c] = connections[c]]_vars

\* ---------------------------------------------------------------- C18
\* C18: handling offer, answer, ice-candidate, toggle-video, toggle-audio,
\* get-room-info or an unrecognized kind leaves the room registry, the user
\* directory and the connection registry unchanged; an unrecognized kind
\* also sends no reply and no message to any connection.
C18_ReadOnlyKinds ==
    [][last'.kind \in RelayKinds \cup {"get-room-info", "unknown"} =>
          /\ rooms' = rooms
          /\ users' = users
          /\ connections' = connections
          /\ last'.kind = "unknown" => sent' = <<>>]_vars

\* An unrecognized kind has just been handled, sent by a member of a room
\* that has a second member with an open transport, and nothing was sent.
C18_Witness ==
    /\ last.kind = "unknown"
    /\ sent = <<>>
    /\ last.id \in DOMAIN users
    /\ users[last.id].room \in DOMAIN rooms
    /\ \E i \in 1..Len(rooms[users[last.id].room].users) :
          LET m == rooms[users[last.id].room].users[i].id
          IN /\ m # last.id
             /\ m \in DOMAIN connections
             /\ connections[m] # last.ws
             /\ readyState[connections[m]] = "OPEN"

\* ---------------------------------------------------------------- C19
\* C19: directory-to-room consistency: every user directory entry belongs to
\* an identifier that is a key of the connection registry, and the room name
\* it records is a key of the room registry whose member list contains that
\* identifier.
C19_DirectoryConsistent ==
    \A id \in DOMAIN users :
        /\ id \in DOMAIN connections
        /\ users[id].room \in DOMAIN rooms
        /\ id \in MemberIds(rooms[users[id].room].users)

\* ---------------------------------------------------------------- C20
\* C20: no state outlives its connections: every identifier listed in the
\* member list of any room is a key of the connection registry, so that once
\* every accepted connection has closed the room registry is empty and every
\* room name can be created again.
C20_MembersAreConnected ==
    \A r \in DOMAIN rooms : MemberIds(rooms[r].users) \subseteq DOMAIN connections

====
